---- MODULE Spec2Model ----
(***************************************************************************)
(* Demand-paged virtual memory with FIFO replacement (src/vm.py).          *)
(*                                                                         *)
(* One action per public operation of class VM (read_byte, write_byte,     *)
(* zero_page); each action runs the whole call, _ensure_in_ram included.   *)
(* The three sizes are the program's constants scaled down so that the     *)
(* state space is finite and small; nothing else about them is changed.    *)
(***************************************************************************)
EXTENDS Integers, Sequences, FiniteSets, TLC

\* ---- sizes (vm.py:6-8 sets 256, 16, 8; scaled down here) ----
PAGE_SIZE == 2
VIRTUAL_PAGES == 2
PHYSICAL_FRAMES == 2

\* largest byte value accepted by write_byte (vm.py:171)
BYTE_MAX == 255

\* ---- bound of the exploration ----
\* calls are issued while page_faults is below this
MaxFaults == 4

\* ---- Optional[...] values: None or a single value ----
None == << >>
Some(x) == << x >>
Get(o) == o[1]

\* ---- inputs ----
\* the arguments callers pass: every address of the virtual address space, one
\* address below it and one past its end; likewise for page numbers; byte values
\* on both sides of the accepted range
VAddrs == -1 .. (PAGE_SIZE * VIRTUAL_PAGES)
PageArgs == -1 .. VIRTUAL_PAGES
Values == {-1, 0, 99, BYTE_MAX + 1}

Offsets == 0 .. (PAGE_SIZE - 1)
FrameNos == 0 .. (PHYSICAL_FRAMES - 1)

\* bytearray(PAGE_SIZE): PAGE_SIZE zero bytes
ZeroBytes == [o \in Offsets |-> 0]

\* PTEntry(): frame None, present False, dirty False
PTEntry == [frame |-> None, present |-> FALSE, dirty |-> FALSE]

\* range(PHYSICAL_FRAMES) as the list free_list is filled with
RECURSIVE RangeSeq(_)
RangeSeq(n) == IF n = 0 THEN << >> ELSE Append(RangeSeq(n - 1), n - 1)

VARIABLES
    page_table,      \* PageTable.entries: page number -> PTEntry, created lazily
    frames,          \* PhysicalMemory.frames: frame number -> bytes
    free_list,       \* PhysicalMemory.free_list
    fifo_queue,      \* VM.fifo_queue
    frame_to_page,   \* VM.frame_to_page
    backing_store,   \* VM.backing_store: page number -> bytes
    page_faults,     \* VM.page_faults
    page_evictions,  \* VM.page_evictions
    last,            \* the call just made: operation, arguments, outcome
    shadow,          \* per address: the byte last stored there by a call, 0 at start
    dirtied,         \* pages that were the target of a successful write_byte or zero_page
    loaded_at,       \* per page: value of page_faults when it last became resident
    written_since    \* pages stored to by a write_byte or zero_page since they last became resident

vmvars == << page_table, frames, free_list, fifo_queue, frame_to_page,
             backing_store, page_faults, page_evictions >>
vars == << page_table, frames, free_list, fifo_queue, frame_to_page,
           backing_store, page_faults, page_evictions,
           last, shadow, dirtied, loaded_at, written_since >>

\* the VM object as one record, so that the methods are operators on it;
\* exc is the exception that ended the call ("" when none), faulted / victim /
\* wrote_back describe what _ensure_in_ram did in the call
VMState ==
    [ page_table |-> page_table, frames |-> frames, free_list |-> free_list,
      fifo_queue |-> fifo_queue, frame_to_page |-> frame_to_page,
      backing_store |-> backing_store, page_faults |-> page_faults,
      page_evictions |-> page_evictions,
      exc |-> "", faulted |-> FALSE, victim |-> None, wrote_back |-> FALSE,
      frame_no |-> None, ret |-> None ]

\* dict helpers
DictSet(d, k, v) == [x \in (DOMAIN d) \cup {k} |-> IF x = k THEN v ELSE d[x]]
DictDel(d, k) == [x \in (DOMAIN d) \ {k} |-> d[x]]

\* PageTable.get_entry: create the entry on first reference
get_entry(s, page_no) ==
    IF page_no \in DOMAIN s.page_table
    THEN s
    ELSE [s EXCEPT !.page_table = DictSet(s.page_table, page_no, PTEntry)]

\* allocate_frame that hands out the first free frame without removing it
allocate_frame_keep(s) ==
    IF Len(s.free_list) > 0
    THEN [s EXCEPT !.frame_no = Some(Head(s.free_list))]
    ELSE [s EXCEPT !.frame_no = None]

\* allocate_frame that reports exhaustion while one frame is still free
allocate_frame_offby1(s) ==
    IF Len(s.free_list) > 1
    THEN [s EXCEPT !.frame_no = Some(Head(s.free_list)),
                   !.free_list = Tail(s.free_list)]
    ELSE [s EXCEPT !.frame_no = None]

\* PhysicalMemory.allocate_frame: pop(0) of the free list, or None
allocate_frame(s) ==
    IF Len(s.free_list) > 0
    THEN [s EXCEPT !.frame_no = Some(Head(s.free_list)),
                   !.free_list = Tail(s.free_list)]
    ELSE [s EXCEPT !.frame_no = None]

\* popleft that reads the oldest page without removing it
popleft_peek(s) ==
    IF Len(s.fifo_queue) = 0
    THEN [s EXCEPT !.exc = "IndexError"]
    ELSE [s EXCEPT !.victim = Some(Head(s.fifo_queue))]

\* popleft replaced by pop: the newest page is taken
popleft_newest(s) ==
    IF Len(s.fifo_queue) = 0
    THEN [s EXCEPT !.exc = "IndexError"]
    ELSE [s EXCEPT !.victim = Some(s.fifo_queue[Len(s.fifo_queue)]),
                   !.fifo_queue = SubSeq(s.fifo_queue, 1, Len(s.fifo_queue) - 1)]

\* _ensure_in_ram: victim_page = self.fifo_queue.popleft()
popleft(s) ==
    IF Len(s.fifo_queue) = 0
    THEN [s EXCEPT !.exc = "IndexError"]
    ELSE [s EXCEPT !.victim = Some(Head(s.fifo_queue)),
                   !.fifo_queue = Tail(s.fifo_queue)]

\* write-back that does not look at the dirty flag
WriteBack_always(s, victim_page) ==
    IF s.frame_no = None
    THEN [s EXCEPT !.exc = "KeyError"]
    ELSE [s EXCEPT !.backing_store =
                      DictSet(s.backing_store, victim_page, s.frames[Get(s.frame_no)]),
                   !.wrote_back = TRUE]

\* _ensure_in_ram: if the victim is dirty, copy its frame into the backing store
WriteBack(s, victim_page) ==
    IF ~s.page_table[victim_page].dirty
    THEN s
    ELSE IF s.frame_no = None
    THEN [s EXCEPT !.exc = "KeyError"]
    ELSE [s EXCEPT !.backing_store =
                      DictSet(s.backing_store, victim_page, s.frames[Get(s.frame_no)]),
                   !.wrote_back = TRUE]

\* unmapping that leaves the victim's frame and dirty flag in its entry
Unmap_keep(s, victim_page) ==
    LET s1 == [s EXCEPT !.page_table[victim_page].present = FALSE]
    IN  IF s1.frame_no = None
        THEN [s1 EXCEPT !.exc = "KeyError"]
        ELSE IF Get(s1.frame_no) \notin DOMAIN s1.frame_to_page
        THEN [s1 EXCEPT !.exc = "KeyError"]
        ELSE [s1 EXCEPT !.frame_to_page = DictDel(s1.frame_to_page, Get(s1.frame_no))]

\* unmapping that also returns the frame to the free list (free_frame), although
\* the caller goes on to reuse it
Unmap_free(s, victim_page) ==
    LET s1 == [s EXCEPT !.page_table[victim_page] =
                           [frame |-> None, present |-> FALSE, dirty |-> FALSE]]
    IN  IF s1.frame_no = None
        THEN [s1 EXCEPT !.exc = "KeyError"]
        ELSE IF Get(s1.frame_no) \notin DOMAIN s1.frame_to_page
        THEN [s1 EXCEPT !.exc = "KeyError"]
        ELSE [s1 EXCEPT !.frame_to_page = DictDel(s1.frame_to_page, Get(s1.frame_no)),
                        !.free_list = Append(s1.free_list, Get(s1.frame_no))]

\* _ensure_in_ram: mark the victim not present, then del frame_to_page[frame_no]
Unmap(s, victim_page) ==
    LET s1 == [s EXCEPT !.page_table[victim_page] =
                           [frame |-> None, present |-> FALSE, dirty |-> FALSE]]
    IN  IF s1.frame_no = None
        THEN [s1 EXCEPT !.exc = "KeyError"]
        ELSE IF Get(s1.frame_no) \notin DOMAIN s1.frame_to_page
        THEN [s1 EXCEPT !.exc = "KeyError"]
        ELSE [s1 EXCEPT !.frame_to_page = DictDel(s1.frame_to_page, Get(s1.frame_no))]

\* eviction that does not count itself in page_evictions
Evict_nocount(s) ==
    LET s1 == popleft(s)
    IN  IF s1.exc # ""
        THEN s1
        ELSE
          LET victim_page == Get(s1.victim)
              s2 == get_entry(s1, victim_page)
              s3 == [s2 EXCEPT !.frame_no = s2.page_table[victim_page].frame]
              s4 == WriteBack(s3, victim_page)
          IN  IF s4.exc # "" THEN s4 ELSE Unmap(s4, victim_page)

\* _ensure_in_ram, the branch "frame_no is None": evict the oldest page of the
\* FIFO queue, write it back when dirty, clear its entry and its reverse mapping.
\* A statement that raises ends the call there, with what was done so far.
Evict(s) ==
    LET s1 == popleft(s)
    IN  IF s1.exc # ""
        THEN s1
        ELSE
          LET victim_page == Get(s1.victim)
              s2 == get_entry(s1, victim_page)
              s3 == [s2 EXCEPT !.frame_no = s2.page_table[victim_page].frame,
                               !.page_evictions = s2.page_evictions + 1]
              s4 == WriteBack(s3, victim_page)
          IN  IF s4.exc # "" THEN s4 ELSE Unmap(s4, victim_page)

\* load that always zeroes the frame
LoadPage_zero(s, page_no) ==
    IF s.frame_no = None
    THEN [s EXCEPT !.exc = "KeyError"]
    ELSE [s EXCEPT !.frames[Get(s.frame_no)] = ZeroBytes]

\* _ensure_in_ram: load the page from the backing store if it is there, else zero it
LoadPage(s, page_no) ==
    IF s.frame_no = None
    THEN [s EXCEPT !.exc = "KeyError"]
    ELSE IF page_no \in DOMAIN s.backing_store
    THEN [s EXCEPT !.frames[Get(s.frame_no)] = s.backing_store[page_no]]
    ELSE [s EXCEPT !.frames[Get(s.frame_no)] = ZeroBytes]

\* mapping that forgets the reverse map
MapPage_noreverse(s, page_no) ==
    [s EXCEPT !.page_table[page_no] =
                  [frame |-> s.frame_no, present |-> TRUE, dirty |-> FALSE],
              !.fifo_queue = Append(s.fifo_queue, page_no)]

\* mapping that forgets the FIFO queue
MapPage_noappend(s, page_no) ==
    [s EXCEPT !.page_table[page_no] =
                  [frame |-> s.frame_no, present |-> TRUE, dirty |-> FALSE],
              !.frame_to_page = DictSet(s.frame_to_page, Get(s.frame_no), page_no)]

\* mapping that puts the page at the front of the queue (appendleft)
MapPage_front(s, page_no) ==
    [s EXCEPT !.page_table[page_no] =
                  [frame |-> s.frame_no, present |-> TRUE, dirty |-> FALSE],
              !.fifo_queue = << page_no >> \o s.fifo_queue,
              !.frame_to_page = DictSet(s.frame_to_page, Get(s.frame_no), page_no)]

\* _ensure_in_ram: update the entry, append to the FIFO queue, set the reverse mapping
MapPage(s, page_no) ==
    [s EXCEPT !.page_table[page_no] =
                  [frame |-> s.frame_no, present |-> TRUE, dirty |-> FALSE],
              !.fifo_queue = Append(s.fifo_queue, page_no),
              !.frame_to_page = DictSet(s.frame_to_page, Get(s.frame_no), page_no)]

\* the page of a hit moved to the back of the queue
MoveToBack(q, page_no) == Append(SelectSeq(q, LAMBDA x : x # page_no), page_no)

\* _ensure_in_ram that refreshes the queue position of a page on a hit (LRU)
EnsureInRam_lru(s, page_no) ==
    LET s0 == get_entry(s, page_no)
    IN  IF s0.page_table[page_no].present
        THEN [s0 EXCEPT !.fifo_queue = MoveToBack(s0.fifo_queue, page_no)]
        ELSE
          LET s1 == [s0 EXCEPT !.page_faults = s0.page_faults + 1, !.faulted = TRUE]
              s2 == allocate_frame(s1)
              s3 == IF s2.frame_no = None THEN Evict(s2) ELSE s2
          IN  IF s3.exc # ""
              THEN s3
              ELSE LET s4 == LoadPage(s3, page_no)
                   IN  IF s4.exc # "" THEN s4 ELSE MapPage(s4, page_no)

\* VM._ensure_in_ram
EnsureInRam(s, page_no) ==
    LET s0 == get_entry(s, page_no)
    IN  IF s0.page_table[page_no].present
        THEN s0
        ELSE
          LET s1 == [s0 EXCEPT !.page_faults = s0.page_faults + 1, !.faulted = TRUE]
              s2 == allocate_frame(s1)
              s3 == IF s2.frame_no = None THEN Evict(s2) ELSE s2
          IN  IF s3.exc # ""
              THEN s3
              ELSE LET s4 == LoadPage(s3, page_no)
                   IN  IF s4.exc # "" THEN s4 ELSE MapPage(s4, page_no)

\* address translation of read_byte and write_byte (floor division, as Python's //)
PageOf(vaddr) == vaddr \div PAGE_SIZE
OffsetOf(vaddr) == vaddr % PAGE_SIZE

\* read_byte that resets the dirty flag of the page it read
read_byte_clean(s, vaddr) ==
    LET page_no == PageOf(vaddr)
        offset == OffsetOf(vaddr)
    IN  IF page_no >= VIRTUAL_PAGES
        THEN [s EXCEPT !.exc = "ValueError"]
        ELSE
          LET s1 == EnsureInRam(s, page_no)
          IN  IF s1.exc # ""
              THEN s1
              ELSE
                LET s2 == get_entry(s1, page_no)
                    fno == s2.page_table[page_no].frame
                IN  IF fno = None
                    THEN [s2 EXCEPT !.exc = "KeyError"]
                    ELSE [s2 EXCEPT !.ret = Some(s2.frames[Get(fno)][offset]),
                                    !.page_table[page_no].dirty = FALSE]

\* VM.read_byte
read_byte(s, vaddr) ==
    LET page_no == PageOf(vaddr)
        offset == OffsetOf(vaddr)
    IN  IF page_no >= VIRTUAL_PAGES
        THEN [s EXCEPT !.exc = "ValueError"]
        ELSE
          LET s1 == EnsureInRam(s, page_no)
          IN  IF s1.exc # ""
              THEN s1
              ELSE
                LET s2 == get_entry(s1, page_no)
                    fno == s2.page_table[page_no].frame
                IN  IF fno = None
                    THEN [s2 EXCEPT !.exc = "KeyError"]
                    ELSE [s2 EXCEPT !.ret = Some(s2.frames[Get(fno)][offset])]

\* write_byte that stores at the start of the frame
write_byte_off0(s, vaddr, value) ==
    LET page_no == PageOf(vaddr)
    IN  IF page_no >= VIRTUAL_PAGES
        THEN [s EXCEPT !.exc = "ValueError"]
        ELSE IF ~(0 <= value /\ value <= BYTE_MAX)
        THEN [s EXCEPT !.exc = "ValueError"]
        ELSE
          LET s1 == EnsureInRam(s, page_no)
          IN  IF s1.exc # ""
              THEN s1
              ELSE
                LET s2 == get_entry(s1, page_no)
                    fno == s2.page_table[page_no].frame
                IN  IF fno = None
                    THEN [s2 EXCEPT !.exc = "KeyError"]
                    ELSE [s2 EXCEPT !.frames[Get(fno)][0] = value,
                                    !.page_table[page_no].dirty = TRUE]

\* write_byte that marks the page dirty only when the byte changes
write_byte_ifchanged(s, vaddr, value) ==
    LET page_no == PageOf(vaddr)
        offset == OffsetOf(vaddr)
    IN  IF page_no >= VIRTUAL_PAGES
        THEN [s EXCEPT !.exc = "ValueError"]
        ELSE IF ~(0 <= value /\ value <= BYTE_MAX)
        THEN [s EXCEPT !.exc = "ValueError"]
        ELSE
          LET s1 == EnsureInRam(s, page_no)
          IN  IF s1.exc # ""
              THEN s1
              ELSE
                LET s2 == get_entry(s1, page_no)
                    fno == s2.page_table[page_no].frame
                IN  IF fno = None
                    THEN [s2 EXCEPT !.exc = "KeyError"]
                    ELSE IF s2.frames[Get(fno)][offset] = value
                    THEN s2
                    ELSE [s2 EXCEPT !.frames[Get(fno)][offset] = value,
                                    !.page_table[page_no].dirty = TRUE]

\* write_byte that stores the byte without marking the page dirty
write_byte_nodirty(s, vaddr, value) ==
    LET page_no == PageOf(vaddr)
        offset == OffsetOf(vaddr)
    IN  IF page_no >= VIRTUAL_PAGES
        THEN [s EXCEPT !.exc = "ValueError"]
        ELSE IF ~(0 <= value /\ value <= BYTE_MAX)
        THEN [s EXCEPT !.exc = "ValueError"]
        ELSE
          LET s1 == EnsureInRam(s, page_no)
          IN  IF s1.exc # ""
              THEN s1
              ELSE
                LET s2 == get_entry(s1, page_no)
                    fno == s2.page_table[page_no].frame
                IN  IF fno = None
                    THEN [s2 EXCEPT !.exc = "KeyError"]
                    ELSE [s2 EXCEPT !.frames[Get(fno)][offset] = value]

\* write_byte that checks the value only after the page was made resident
write_byte_late(s, vaddr, value) ==
    LET page_no == PageOf(vaddr)
        offset == OffsetOf(vaddr)
    IN  IF page_no >= VIRTUAL_PAGES
        THEN [s EXCEPT !.exc = "ValueError"]
        ELSE
          LET s1 == EnsureInRam(s, page_no)
          IN  IF s1.exc # ""
              THEN s1
              ELSE IF ~(0 <= value /\ value <= BYTE_MAX)
              THEN [s1 EXCEPT !.exc = "ValueError"]
              ELSE
                LET s2 == get_entry(s1, page_no)
                    fno == s2.page_table[page_no].frame
                IN  IF fno = None
                    THEN [s2 EXCEPT !.exc = "KeyError"]
                    ELSE [s2 EXCEPT !.frames[Get(fno)][offset] = value,
                                    !.page_table[page_no].dirty = TRUE]

\* VM.write_byte
write_byte(s, vaddr, value) ==
    LET page_no == PageOf(vaddr)
        offset == OffsetOf(vaddr)
    IN  IF page_no >= VIRTUAL_PAGES
        THEN [s EXCEPT !.exc = "ValueError"]
        ELSE IF ~(0 <= value /\ value <= BYTE_MAX)
        THEN [s EXCEPT !.exc = "ValueError"]
        ELSE
          LET s1 == EnsureInRam(s, page_no)
          IN  IF s1.exc # ""
              THEN s1
              ELSE
                LET s2 == get_entry(s1, page_no)
                    fno == s2.page_table[page_no].frame
                IN  IF fno = None
                    THEN [s2 EXCEPT !.exc = "KeyError"]
                    ELSE [s2 EXCEPT !.frames[Get(fno)][offset] = value,
                                    !.page_table[page_no].dirty = TRUE]

\* zero_page that zeroes the frame without marking the page dirty
zero_page_nodirty(s, page_no) ==
    IF page_no >= VIRTUAL_PAGES
    THEN [s EXCEPT !.exc = "ValueError"]
    ELSE
      LET s1 == EnsureInRam(s, page_no)
      IN  IF s1.exc # ""
          THEN s1
          ELSE
            LET s2 == get_entry(s1, page_no)
                fno == s2.page_table[page_no].frame
            IN  IF fno = None
                THEN [s2 EXCEPT !.exc = "KeyError"]
                ELSE [s2 EXCEPT !.frames[Get(fno)] = ZeroBytes]

\* VM.zero_page
zero_page(s, page_no) ==
    IF page_no >= VIRTUAL_PAGES
    THEN [s EXCEPT !.exc = "ValueError"]
    ELSE
      LET s1 == EnsureInRam(s, page_no)
      IN  IF s1.exc # ""
          THEN s1
          ELSE
            LET s2 == get_entry(s1, page_no)
                fno == s2.page_table[page_no].frame
            IN  IF fno = None
                THEN [s2 EXCEPT !.exc = "KeyError"]
                ELSE [s2 EXCEPT !.frames[Get(fno)] = ZeroBytes,
                                !.page_table[page_no].dirty = TRUE]

\* ---- the state machine ----

\* the VM's fields after a call that ended in state record s
Store(s) ==
    /\ page_table' = s.page_table
    /\ frames' = s.frames
    /\ free_list' = s.free_list
    /\ fifo_queue' = s.fifo_queue
    /\ frame_to_page' = s.frame_to_page
    /\ backing_store' = s.backing_store
    /\ page_faults' = s.page_faults
    /\ page_evictions' = s.page_evictions

\* what a caller (and the checks below) can tell about the call just made:
\* hit is "the page was present when the call started", known is "the page had
\* a page-table entry when the call started", rereads is "a read_byte of the
\* address that the call before it, a write_byte, stored to"
CallRecord(op, arg, value, page_no, s) ==
    [ op |-> op, arg |-> arg, value |-> value, page |-> page_no,
      exc |-> s.exc, ret |-> s.ret,
      faulted |-> s.faulted, victim |-> s.victim, wrote_back |-> s.wrote_back,
      known |-> page_no \in DOMAIN page_table,
      hit |-> (page_no \in DOMAIN page_table /\ page_table[page_no].present),
      rereads |-> (op = "read_byte" /\ last.op = "write_byte" /\ last.exc = ""
                   /\ last.arg = arg) ]

\* history kept beside the VM: the fault number at which a page became resident
Observe(page_no, s) ==
    /\ loaded_at' =
          IF s.faulted /\ s.exc = ""
          THEN DictSet(loaded_at, page_no, s.page_faults)
          ELSE loaded_at

\* history kept beside the VM: a page that became resident in the call starts
\* with no store, and a write_byte or zero_page that returned counts as one
ObserveStores(page_no, s, stores) ==
    /\ written_since' =
          LET kept == IF s.faulted /\ s.exc = ""
                      THEN written_since \ {page_no}
                      ELSE written_since
          IN  IF stores /\ s.exc = "" THEN kept \cup {page_no} ELSE kept

Init ==
    /\ page_table = << >>
    /\ frames = [f \in FrameNos |-> ZeroBytes]
    /\ free_list = RangeSeq(PHYSICAL_FRAMES)
    /\ fifo_queue = << >>
    /\ frame_to_page = << >>
    /\ backing_store = << >>
    /\ page_faults = 0
    /\ page_evictions = 0
    /\ last = [ op |-> "init", arg |-> 0, value |-> 0, page |-> 0,
                exc |-> "", ret |-> None, faulted |-> FALSE, victim |-> None,
                wrote_back |-> FALSE, known |-> FALSE, hit |-> FALSE, rereads |-> FALSE ]
    /\ shadow = [a \in VAddrs |-> 0]
    /\ dirtied = {}
    /\ loaded_at = << >>
    /\ written_since = {}

ReadByte ==
    \E vaddr \in VAddrs :
        LET s == read_byte(VMState, vaddr)
        IN  /\ page_faults < MaxFaults
            /\ Store(s)
            /\ last' = CallRecord("read_byte", vaddr, 0, PageOf(vaddr), s)
            /\ shadow' = shadow
            /\ dirtied' = dirtied
            /\ Observe(PageOf(vaddr), s)
            /\ ObserveStores(PageOf(vaddr), s, FALSE)

WriteByte ==
    \E vaddr \in VAddrs, value \in Values :
        LET s == write_byte(VMState, vaddr, value)
        IN  /\ page_faults < MaxFaults
            /\ Store(s)
            /\ last' = CallRecord("write_byte", vaddr, value, PageOf(vaddr), s)
            /\ shadow' = IF s.exc = ""
                         THEN [shadow EXCEPT ![vaddr] = value]
                         ELSE shadow
            /\ dirtied' = IF s.exc = "" THEN dirtied \cup {PageOf(vaddr)} ELSE dirtied
            /\ Observe(PageOf(vaddr), s)
            /\ ObserveStores(PageOf(vaddr), s, TRUE)

ZeroPage ==
    \E page_no \in PageArgs :
        LET s == zero_page(VMState, page_no)
        IN  /\ page_faults < MaxFaults
            /\ Store(s)
            /\ last' = CallRecord("zero_page", page_no, 0, page_no, s)
            /\ shadow' = IF s.exc = ""
                         THEN [a \in VAddrs |->
                                  IF PageOf(a) = page_no THEN 0 ELSE shadow[a]]
                         ELSE shadow
            /\ dirtied' = IF s.exc = "" THEN dirtied \cup {page_no} ELSE dirtied
            /\ Observe(page_no, s)
            /\ ObserveStores(page_no, s, TRUE)

Next == ReadByte \/ WriteByte \/ ZeroPage

Spec == Init /\ [][Next]_vars

\* ---- properties ----

\* the pages whose entry has present == true
Resident == {p \in DOMAIN page_table : page_table[p].present}

\* the elements of a sequence
Elems(q) == {q[i] : i \in DOMAIN q}

\* the addresses inside the virtual address space
ValidAddr(a) == 0 <= a /\ a < PAGE_SIZE * VIRTUAL_PAGES

\* C1: write_byte(a, v) with a valid address a and a byte v, followed
\* immediately by read_byte(a), makes the read return v.
C1_WriteThenRead ==
    [][(last'.rereads /\ ValidAddr(last'.arg))
          => (last'.exc = "" /\ last'.ret = Some(last.value))]_vars

\* a read_byte right after a write_byte of 99 to the same valid address, where
\* the write had to evict a page to make its own resident
C1_Witness ==
    /\ last.rereads
    /\ ValidAddr(last.arg)
    /\ last.ret = Some(99)
    /\ page_evictions > 0

C3_Capacity == Len(fifo_queue) + Len(free_list) = PHYSICAL_FRAMES

\* every frame is in use, pages were evicted, and the last call was rejected
C3_Witness ==
    /\ Len(fifo_queue) = PHYSICAL_FRAMES
    /\ Len(free_list) = 0
    /\ page_evictions > 0
    /\ last.exc = "ValueError"

\* C4: frame_to_page and the page table agree exactly: a present page P with
\* frame F has frame_to_page[F] == P, and every key F of frame_to_page maps to
\* a page that is present with frame F.
C4_ReverseMap ==
    /\ \A p \in Resident :
          /\ page_table[p].frame # None
          /\ Get(page_table[p].frame) \in DOMAIN frame_to_page
          /\ frame_to_page[Get(page_table[p].frame)] = p
    /\ \A f \in DOMAIN frame_to_page :
          /\ frame_to_page[f] \in Resident
          /\ page_table[frame_to_page[f]].frame = Some(f)

\* all frames are mapped after a page was evicted and its frame reused
C4_Witness ==
    /\ page_evictions > 0
    /\ DOMAIN frame_to_page = FrameNos
    /\ \E p \in DOMAIN page_table : ~page_table[p].present

\* C5: the FIFO queue has no duplicates and its elements are exactly the
\* pages whose entry has present == true.
C5_QueueIsResidentSet ==
    /\ \A i, j \in DOMAIN fifo_queue : fifo_queue[i] = fifo_queue[j] => i = j
    /\ Elems(fifo_queue) = Resident

\* a full queue after an eviction, with an evicted page outside it
C5_Witness ==
    /\ page_evictions > 0
    /\ Len(fifo_queue) = PHYSICAL_FRAMES
    /\ \E p \in DOMAIN page_table : p \notin Elems(fifo_queue)

\* C6: the victim of an eviction is the resident page that became resident
\* earliest (loaded_at is the fault number at which a page became resident),
\* and a call that hits a resident page leaves the queue as it was.
C6_FifoVictim ==
    [][/\ (last'.victim # None /\ page_evictions' # page_evictions)
             => /\ Get(last'.victim) \in Resident
                /\ \A q \in Resident :
                      loaded_at[Get(last'.victim)] <= loaded_at[q]
       /\ (last'.page \in Resident) => fifo_queue' = fifo_queue]_vars

\* an eviction whose victim was not the page loaded by the fault before it
C6_Witness ==
    /\ last.victim # None
    /\ last.exc = ""
    /\ Get(last.victim) \notin Resident
    /\ \A q \in Resident : loaded_at[Get(last.victim)] < loaded_at[q]

\* the arguments that the calls reject
Rejected(c) ==
    \/ c.op \in {"read_byte", "write_byte", "zero_page"} /\ c.page >= VIRTUAL_PAGES
    \/ c.op = "write_byte" /\ ~(0 <= c.value /\ c.value <= BYTE_MAX)

\* C7: a call with a page number >= VIRTUAL_PAGES, or a write_byte with a
\* value outside 0..255, ends in an error and leaves the whole VM unchanged.
C7_RejectedUnchanged ==
    [][/\ Rejected(last') => last'.exc = "ValueError"
       /\ last'.exc = "ValueError" => UNCHANGED << vmvars, shadow, dirtied >>]_vars

\* a write_byte of an invalid value to a valid address whose page is not
\* resident, made while other pages are
C7_Witness ==
    /\ last.op = "write_byte"
    /\ last.exc = "ValueError"
    /\ ValidAddr(last.arg)
    /\ last.page \notin Resident
    /\ Resident # {}

\* C8: a read_byte of an address whose page is resident causes no fault and
\* no eviction and leaves the whole VM unchanged.
C8_ReadHitUnchanged ==
    [][(last'.op = "read_byte" /\ last'.page \in Resident)
          => (last'.exc = "" /\ ~last'.faulted /\ UNCHANGED vmvars)]_vars

\* a read_byte that hit a clean resident page, after faults happened
C8_Witness ==
    /\ last.op = "read_byte"
    /\ last.hit
    /\ last.exc = ""
    /\ ~page_table[last.page].dirty
    /\ page_faults > 1

\* C9: the backing store changes only in a call that evicts a page whose
\* dirty flag is set, and then only in the victim's entry; a page that was
\* never written is not in the backing store and every byte read from it is 0.
C9_BackingStoreWrites ==
    [][/\ backing_store' # backing_store
             => /\ last'.victim # None
                /\ page_table[Get(last'.victim)].dirty
                /\ DOMAIN backing_store' = DOMAIN backing_store \cup {Get(last'.victim)}
                /\ \A p \in DOMAIN backing_store :
                      p # Get(last'.victim) => backing_store'[p] = backing_store[p]
       /\ \A p \in DOMAIN page_table' :
             p \notin dirtied' => p \notin DOMAIN backing_store'
       /\ (last'.op = "read_byte" /\ last'.exc = "" /\ last'.page \notin dirtied')
             => last'.ret = Some(0)]_vars

\* a read_byte that faults on a never-written page that was resident before
\* (so it was evicted clean) and returns 0
C9_Witness ==
    /\ last.op = "read_byte"
    /\ last.exc = ""
    /\ last.faulted
    /\ last.known
    /\ last.page \notin dirtied
    /\ last.page \notin DOMAIN backing_store
    /\ last.ret = Some(0)

\* C10: a call whose arguments pass validation ends without error; when the
\* free list is empty the queue is not, the oldest page's frame is defined
\* and it is a key of the reverse map.
C10_NoInternalFailure ==
    /\ last.exc \in {"", "ValueError"}
    /\ ~Rejected(last) => last.exc = ""
    /\ Len(free_list) = 0
          => /\ Len(fifo_queue) > 0
             /\ Head(fifo_queue) \in DOMAIN page_table
             /\ page_table[Head(fifo_queue)].frame # None
             /\ Get(page_table[Head(fifo_queue)].frame) \in DOMAIN frame_to_page

\* a call that found no free frame, evicted and ended without error
C10_Witness ==
    /\ last.op # "init"
    /\ last.victim # None
    /\ last.exc = ""
    /\ Len(free_list) = 0

\* C11: whatever integers the callers pass, negative ones included,
\* _ensure_in_ram runs only for 0 <= page_no < VIRTUAL_PAGES, so the keys of
\* the page table lie in 0..VIRTUAL_PAGES-1 and there are at most
\* VIRTUAL_PAGES of them.
C11_PageRange ==
    /\ (last.op # "init" /\ last.exc # "ValueError")
          => (0 <= last.page /\ last.page < VIRTUAL_PAGES)
    /\ DOMAIN page_table \subseteq 0 .. (VIRTUAL_PAGES - 1)
    /\ Cardinality(DOMAIN page_table) <= VIRTUAL_PAGES

\* C12: an entry with present == false has frame None and dirty == false, and
\* an entry with present == true has a frame in 0..PHYSICAL_FRAMES-1.
C12_EntryShape ==
    \A p \in DOMAIN page_table :
        /\ ~page_table[p].present
              => (page_table[p].frame = None /\ ~page_table[p].dirty)
        /\ page_table[p].present
              => (page_table[p].frame # None /\ Get(page_table[p].frame) \in FrameNos)

\* the entry of a page that was written and then evicted, beside present ones
C12_Witness ==
    /\ last.wrote_back
    /\ \E p \in DOMAIN page_table : p \in dirtied /\ ~page_table[p].present
    /\ \E p \in DOMAIN page_table : page_table[p].present /\ page_table[p].dirty

\* the number of times a frame is in the free list
FreeCount(f) == Cardinality({i \in DOMAIN free_list : free_list[i] = f})

\* the present pages a frame is assigned to
PagesIn(f) == {p \in Resident : page_table[p].frame = Some(f)}

\* C13: each frame identifier is either in the free list exactly once or
\* assigned to exactly one present page, never both and never neither, and
\* the set of frames stays the same.
C13_FramePartition ==
    /\ DOMAIN frames = FrameNos
    /\ Elems(free_list) \subseteq FrameNos
    /\ \A f \in FrameNos :
          \/ FreeCount(f) = 1 /\ PagesIn(f) = {}
          \/ FreeCount(f) = 0 /\ Cardinality(PagesIn(f)) = 1

\* no frame is free and the frame of an evicted page was given to the page
\* of the call
C13_Witness ==
    /\ last.victim # None
    /\ last.exc = ""
    /\ Len(free_list) = 0
    /\ \A f \in FrameNos : Cardinality(PagesIn(f)) = 1

\* the page appended to the queue last
Newest(q) == q[Len(q)]

\* C14 as stated: after a call that returns without error the accessed page is
\* present with a valid frame, and it is the most recently appended element of
\* the FIFO queue if and only if the call faulted.
C14_NewestIffFaulted ==
    (last.op # "init" /\ last.exc = "")
        => /\ last.page \in Resident
           /\ page_table[last.page].frame # None
           /\ Get(page_table[last.page].frame) \in FrameNos
           /\ (Len(fifo_queue) > 0 /\ Newest(fifo_queue) = last.page) <=> last.faulted

\* C14 amended: after a call that returns without error the accessed page is
\* present with a valid frame; if the call faulted the page is the most
\* recently appended element of the queue, and if it did not fault the queue
\* is as it was before the call.
C14_Postcondition ==
    [][last'.exc = ""
          => /\ last'.page \in Resident'
             /\ page_table'[last'.page].frame # None
             /\ Get(page_table'[last'.page].frame) \in FrameNos
             /\ last'.faulted
                   => (Len(fifo_queue') > 0 /\ Newest(fifo_queue') = last'.page)
             /\ ~last'.faulted => fifo_queue' = fifo_queue]_vars

\* a call that faulted with the queue full: its page is the newest of the queue
C14_Witness ==
    /\ last.op # "init"
    /\ last.exc = ""
    /\ last.faulted
    /\ last.victim # None
    /\ Len(fifo_queue) = PHYSICAL_FRAMES
    /\ Newest(fifo_queue) = last.page

\* C15: a page's dirty flag is true exactly when the page is resident and was
\* the target of a write_byte or zero_page that returned since it last became
\* resident; read_byte never turns a dirty flag on, and write_byte sets it
\* whatever byte was stored before.
C15_DirtyMeaning ==
    [][/\ \A p \in DOMAIN page_table' :
             page_table'[p].dirty <=> (page_table'[p].present /\ p \in written_since')
       /\ last'.op = "read_byte"
             => \A p \in DOMAIN page_table' :
                   page_table'[p].dirty => (p \in DOMAIN page_table /\ page_table[p].dirty)
       /\ (last'.op \in {"write_byte", "zero_page"} /\ last'.exc = "")
             => page_table'[last'.page].dirty]_vars

\* a write_byte of 0 that faulted on a page absent from the backing store: the
\* byte it stored equals the zero-filled byte it replaced, and the page is dirty
C15_Witness ==
    /\ last.op = "write_byte"
    /\ last.exc = ""
    /\ last.faulted
    /\ last.value = 0
    /\ last.page \notin DOMAIN backing_store
    /\ page_table[last.page].dirty
    /\ \E p \in Resident : ~page_table[p].dirty

\* the bytes of the frame a resident page occupies
FrameOf(p) == frames[Get(page_table[p].frame)]

\* C16: for every resident page whose dirty flag is false, the bytes of its
\* frame equal the backing-store copy of the page if there is one and are all
\* zero otherwise.
C16_CleanMatchesStore ==
    \A p \in Resident :
        ~page_table[p].dirty
            => FrameOf(p) = (IF p \in DOMAIN backing_store
                             THEN backing_store[p]
                             ELSE ZeroBytes)

\* a clean resident page reloaded from a backing-store copy that is not all
\* zero, beside a clean resident page without a copy
C16_Witness ==
    /\ \E p \in Resident :
          /\ ~page_table[p].dirty
          /\ p \in DOMAIN backing_store
          /\ backing_store[p] # ZeroBytes
          /\ FrameOf(p) = backing_store[p]
    /\ \E p \in Resident : ~page_table[p].dirty /\ p \notin DOMAIN backing_store

\* C17: a call evicts if and only if it faults while the free list is empty;
\* the free list never grows, so once it is empty every fault evicts exactly
\* one page, and the number of resident pages never decreases.
C17_EvictionWhenFull ==
    [][/\ (page_evictions' # page_evictions) <=> (last'.faulted /\ Len(free_list) = 0)
       /\ Len(free_list') <= Len(free_list)
       /\ (last'.faulted /\ Len(free_list) = 0)
             => /\ page_evictions' = page_evictions + 1
                /\ Cardinality(Resident \ Resident') = 1
       /\ Cardinality(Resident') >= Cardinality(Resident)]_vars

\* a second eviction in a row: the free list stayed empty and the fault evicted
C17_Witness ==
    /\ last.faulted
    /\ last.victim # None
    /\ page_evictions >= 2
    /\ Len(free_list) = 0
    /\ Cardinality(Resident) = PHYSICAL_FRAMES

\* C18: a page that became resident stays resident through the next
\* PHYSICAL_FRAMES-1 page faults and is evicted by the PHYSICAL_FRAMES-th
\* fault after the one that loaded it; a call on a page that is not resident
\* faults.
C18_ResidencySpan ==
    [][/\ \A p \in DOMAIN loaded_at' :
             (p \in Resident') <=> (page_faults' - loaded_at'[p] < PHYSICAL_FRAMES)
       /\ page_evictions' # page_evictions
             => page_faults' - loaded_at[Get(last'.victim)] = PHYSICAL_FRAMES
       /\ (last'.exc # "ValueError" /\ last'.page \notin Resident)
             => last'.faulted]_vars

\* a call on a page that was evicted before: it faults again, and its own
\* victim leaves PHYSICAL_FRAMES faults after it was loaded
C18_Witness ==
    /\ last.op # "init"
    /\ last.exc = ""
    /\ last.known
    /\ last.faulted
    /\ last.victim # None
    /\ page_faults - loaded_at[Get(last.victim)] = PHYSICAL_FRAMES

\* the addresses the calls accept
Accepted == {a \in VAddrs : PageOf(a) < VIRTUAL_PAGES}

\* C19: the VM reads like a flat zero-initialised byte array: in every
\* reachable state read_byte(a) returns the byte of the most recent write_byte
\* to a, or 0 if there was none or a zero_page of a's page came after it
\* (shadow is that array).
C19_FlatArray ==
    \A a \in Accepted :
        /\ read_byte(VMState, a).exc = ""
        /\ read_byte(VMState, a).ret = Some(shadow[a])

\* a read_byte returned 0 from a page that was stored to, while a 99 written
\* to another page lies in the backing store, its page evicted
C19_Witness ==
    /\ last.op = "read_byte"
    /\ last.exc = ""
    /\ last.ret = Some(0)
    /\ last.page \in dirtied
    /\ \E a \in Accepted :
          /\ shadow[a] = 99
          /\ PageOf(a) \notin Resident
          /\ PageOf(a) \in DOMAIN backing_store

\* the larger of two integers
Max(x, y) == IF x >= y THEN x ELSE y

\* C20: page_faults == page_evictions + len(fifo_queue), that is
\* page_evictions == max(0, page_faults - PHYSICAL_FRAMES), and a call raises
\* each counter by at most 1.
C20_Counters ==
    [][/\ page_faults' = page_evictions' + Len(fifo_queue')
       /\ page_evictions' = Max(0, page_faults' - PHYSICAL_FRAMES)
       /\ page_faults' - page_faults \in {0, 1}
       /\ page_evictions' - page_evictions \in {0, 1}]_vars

\* more faults than frames: two evictions were counted
C20_Witness ==
    /\ page_faults = PHYSICAL_FRAMES + 2
    /\ page_evictions = 2
    /\ Len(fifo_queue) = PHYSICAL_FRAMES

====
